---- MODULE Spec2Model ----
(***************************************************************************)
(* Budgeteer notification helper (static/js/popup.js).                     *)
(*                                                                         *)
(* The page is modelled by the toast containers it holds (in document      *)
(* order, each with its child toasts), the toast elements created so far,  *)
(* the legacy alert nodes selected by the content-loaded handler, and the  *)
(* two globals the script reads: `bootstrap` (the toast-widget library)    *)
(* and window.BudgeteerNotifications.                                      *)
(*                                                                         *)
(* Strings are sequences of tokens.  A token is one character (of Chars,   *)
(* Syntax or WhiteSpace, a glyph, or U+0000), or one piece of markup       *)
(* written out in full: a tag of Tags, the end tag "</div>", a comment of  *)
(* Comments or a character reference of CharRefs.  Characters with no      *)
(* ASCII spelling are named by their code points.  The letters of Chars    *)
(* are few, so that single characters spell no character reference and no  *)
(* element name that the parser treats in a way of its own.                *)
(***************************************************************************)
EXTENDS Integers, Sequences, FiniteSets, TLC

VARIABLES
    bootstrap,    \* TRUE iff the global `bootstrap` (toast-widget library) is defined
    notifier,     \* window.BudgeteerNotifications: [defined, methods]
    containers,   \* the .toast-container elements of the page, in document order;
                  \* each is the sequence of its child toasts (ids)
    toasts,       \* every toast element created so far, by id = creation order
    listeners,    \* ids of the toasts that carry a hidden.bs.toast listener
    delivered,    \* per toast: hidden.bs.toast events delivered to it
    runs,         \* per toast: executions of the listener body
    alerts,       \* the NodeList selected by the content-loaded handler
    removed,      \* indices of `alerts` whose node has been removed from the page
    calls,        \* the entry points the handler invoked: <<node index, method>>
    created,      \* toasts created by the content-loaded handler
    loaded,       \* TRUE once the content-loaded handler has run
    nCalls,       \* direct show* calls made so far
    nHidden,      \* hidden events delivered so far
    nFaults,      \* show* calls (direct or from the handler) that ended in a fault
    last,         \* the latest direct show* call: [method, message]
    fault         \* TRUE iff the last operation ended in an uncaught exception

vars == <<bootstrap, notifier, containers, toasts, listeners, delivered, runs,
          alerts, removed, calls, created, loaded, nCalls, nHidden, nFaults, last,
          fault>>

----------------------------------------------------------------------------
(* Bounds of the model *)

\* Notifications in one run: direct show* calls plus legacy alerts selected
MaxToasts == 2

\* Hidden events delivered in one run
MaxHidden == 2

\* Notifications in one run of the specification with one message and one
\* kind of alert, under which the order of the toasts is checked
MaxOrder == 3

\* Notifications in one run of the specification under which the body text is
\* checked
MaxText == 2

----------------------------------------------------------------------------
(* Severities, entry points, glyphs *)

Methods == {"showSuccess", "showWarning", "showDanger", "showInfo"}

\* 'show' + category.charAt(0).toUpperCase() + category.slice(1)
MethodName(category) ==
    CASE category = "success" -> "showSuccess"
      [] category = "warning" -> "showWarning"
      [] category = "danger"  -> "showDanger"
      [] category = "info"    -> "showInfo"

\* `bg-${type}` inside the className template
BgClass(type) ==
    CASE type = "success" -> "bg-success"
      [] type = "warning" -> "bg-warning"
      [] type = "danger"  -> "bg-danger"
      [] type = "info"    -> "bg-info"

----------------------------------------------------------------------------
(* Text: trimming and HTML parsing *)

\* The characters String.prototype.trim strips: WhiteSpace and LineTerminator
\* of ECMAScript (TAB, LF, VT, FF, CR, SP, NBSP, the Unicode space separators,
\* LS, PS and the byte order mark)
WhiteSpace ==
    { "\t", "\n", "U+000B", "\f", "\r", " ", "U+00A0", "U+1680",
      "U+2000", "U+2001", "U+2002", "U+2003", "U+2004", "U+2005", "U+2006",
      "U+2007", "U+2008", "U+2009", "U+200A", "U+2028", "U+2029", "U+202F",
      "U+205F", "U+3000", "U+FEFF" }

\* The glyphs the entry points put before the message
Glyphs == {"U+2705", "U+26A0 U+FE0F", "U+274C", "U+2139 U+FE0F"}

\* The letters of a message
Letters == {"a", "b", "x", "y"}

\* The characters of a message that are text wherever they stand
Chars == Letters \cup {"0", "1", ".", ",", ":"}

\* The characters the HTML tokenizer gives a meaning to
Syntax == {"<", ">", "/", "&", ";"}

\* The tags of a message written out in full: phrasing markup, which leaves
\* the .toast-body open
Tags == {"<b>", "</b>", "<i>", "</i>", "<br>"}

\* The comments of a message
Comments == {"<!--c-->"}

\* The character references of a message
CharRefs == {"&amp;", "&lt;", "&gt;", "&quot;", "&#39;", "&nbsp;"}

\* What follows ${message}</div> in the template and lies before the </div>
\* after it: a line break and the indentation of the <button> line, the
\* button (no text), a line break and the indentation of the </div> line
TemplateTail ==
    <<"\n">> \o [k \in 1..16 |-> " "] \o <<"\n">> \o [k \in 1..12 |-> " "]

RECURSIVE TrimStart(_)
TrimStart(s) ==
    IF s # <<>> /\ Head(s) \in WhiteSpace THEN TrimStart(Tail(s)) ELSE s

RECURSIVE TrimEnd(_)
TrimEnd(s) ==
    IF s # <<>> /\ s[Len(s)] \in WhiteSpace
    THEN TrimEnd(SubSeq(s, 1, Len(s) - 1)) ELSE s

\* String.prototype.trim
Trim(s) == TrimEnd(TrimStart(s))

\* The tokens the HTML parser takes as the text they are when it meets them
\* in text (for "&": no letters of Letters spell a character reference)
Literals == (Chars \cup Glyphs \cup WhiteSpace \cup {">", "/", "&", ";"}) \ {"\r"}

\* The text of a character reference, or of a character met in text
Decode(tok) ==
    CASE tok = "&amp;"  -> <<"&">>
      [] tok = "&lt;"   -> <<"<">>
      [] tok = "&gt;"   -> <<">">>
      [] tok = "&quot;" -> <<"\"">>
      [] tok = "&#39;"  -> <<"'">>
      [] tok = "&nbsp;" -> <<"U+00A0">>
      [] tok \in Literals -> <<tok>>

\* The tokens that end a tag (or a bogus comment) the tokenizer is inside of:
\* ">" and the markup written out in full, which ends with ">"
Closers == Tags \cup Comments \cup {"</div>", ">"}

\* The text the parser puts into the .toast-body when it reads `html` in the
\* place of ${message}.  In text: a tag or a comment adds nothing, "</div>"
\* closes the body, so that nothing after it is body text; U+0000 is dropped;
\* a carriage return is a line feed, one with the line feed after it; "<"
\* before a letter opens a tag, "</" opens an end tag or a bogus comment
\* ("</>" is nothing), any other "<" is text.  Inside a tag everything up to
\* the next ">" belongs to the tag.  A tag still open where the message ends
\* takes the template's </div> for its own end: the body then goes on to the
\* template's next </div>.
RECURSIVE Parse(_, _)
Parse(html, inTag) ==
    IF html = <<>> THEN (IF inTag THEN TemplateTail ELSE <<>>)
    ELSE
      LET c == Head(html)
          r == Tail(html)
      IN  IF inTag THEN Parse(r, c \notin Closers)
          ELSE CASE c = "</div>" -> <<>>
                 [] c \in Tags \cup Comments -> Parse(r, FALSE)
                 [] c = "U+0000" -> Parse(r, FALSE)
                 [] c = "\r" ->
                      IF r # <<>> /\ Head(r) = "\n" THEN Parse(r, FALSE)
                      ELSE <<"\n">> \o Parse(r, FALSE)
                 [] c = "<" ->
                      IF r # <<>> /\ Head(r) \in Letters THEN Parse(Tail(r), TRUE)
                      ELSE IF r # <<>> /\ Head(r) = "/"
                      THEN IF Len(r) >= 2 /\ r[2] = ">"
                           THEN Parse(Tail(Tail(r)), FALSE)
                           ELSE Parse(Tail(r), TRUE)
                      ELSE <<"<">> \o Parse(r, FALSE)
                 [] c \in CharRefs \cup Literals -> Decode(c) \o Parse(r, FALSE)

\* textContent of the .toast-body built by assigning `html` through innerHTML
TextContent(html) == Parse(html, FALSE)

----------------------------------------------------------------------------
(* Input sets *)

Messages == { <<>>, <<"a">>, <<"a", "<b>", "&amp;">> }

\* Messages for the specification under which the body text is checked: the
\* empty one, plain text, a "<" that opens a tag the message does not end,
\* one with a comment, U+0000, carriage returns and an end tag of the body,
\* and one with tags, references and characters of markup that stay text
TextMessages ==
    { <<>>,
      <<"x", " ", "y", ".">>,
      <<"x", "<", "y">>,
      <<"<!--c-->", "x", "U+0000", "\r", "\n", "y", "\r", "</div>", "y">>,
      <<"a", "<b>", "&amp;", "&", " ", "<", " ", "<", "/", ">", "&lt;">> }

AlertTexts == { <<"\n", " ", "a", " ", "b", " ">> }

Markers == {"alert-success", "alert-warning", "alert-danger"}

AlertNodes ==
    [classList : SUBSET Markers, textContent : AlertTexts]
    \cup { [classList |-> {}, textContent |-> <<>>],
           [classList |-> {}, textContent |-> <<"\t", "U+00A0", "a", "\r", "\n">>] }

AlertLists(nodes, n) == UNION { [1..k -> nodes] : k \in 0..n }

\* window.BudgeteerNotifications as the script defines it
Intact == [defined |-> TRUE, methods |-> Methods]

\* What another script of the page may leave of the global, which the
\* handler's existence test is there for: a stripped object, or nothing
NotifierShapes ==
    { [defined |-> TRUE, methods |-> {"showWarning"}],
      [defined |-> FALSE, methods |-> {}] }

----------------------------------------------------------------------------
(* window.BudgeteerNotifications *)

\* The part of the page a call reads and writes
Page == [containers |-> containers, toasts |-> toasts,
         listeners |-> listeners, fault |-> FALSE]

\* A faulty variant of EnsureContainer: a container is created on every call
EnsureContainerAlways(cs) == Append(cs, <<>>)

\* document.querySelector('.toast-container'), created and appended to the
\* body when there is none
EnsureContainer(cs) == IF cs = <<>> THEN << <<>> >> ELSE cs

\* The toast element: its severity class, the markup assigned to its body
\* through innerHTML and the text that markup parses to
CreateToast(type, message) ==
    [bg |-> BgClass(type), html |-> message, text |-> TextContent(message),
     widget |-> FALSE]

\* A faulty variant of AppendChild: the toast is inserted before the first child
PrependChild(cs, id) == [cs EXCEPT ![1] = <<id>> \o @]

\* container.appendChild(toast), on the first container in document order
AppendChild(cs, id) == [cs EXCEPT ![1] = Append(@, id)]

\* A faulty variant of showToast: the call returns quietly when the library is absent
showToastGuarded(S, type, message) ==
    LET id == Len(S.toasts) + 1
    IN  [containers |-> [EnsureContainer(S.containers) EXCEPT ![1] = Append(@, id)],
         toasts     |-> Append(S.toasts,
                               [CreateToast(type, message) EXCEPT !.widget = bootstrap]),
         listeners  |-> IF bootstrap THEN S.listeners \cup {id} ELSE S.listeners,
         fault      |-> FALSE]

\* A faulty variant of showToast: the widget is constructed before the toast is appended
showToastWidgetFirst(S, type, message) ==
    LET id == Len(S.toasts) + 1
        cs == EnsureContainer(S.containers)
    IN  IF bootstrap
        THEN [containers |-> [cs EXCEPT ![1] = Append(@, id)],
              toasts     |-> Append(S.toasts,
                                    [CreateToast(type, message) EXCEPT !.widget = TRUE]),
              listeners  |-> S.listeners \cup {id},
              fault      |-> FALSE]
        ELSE [containers |-> cs,
              toasts     |-> Append(S.toasts, CreateToast(type, message)),
              listeners  |-> S.listeners,
              fault      |-> TRUE]

\* _showToast: the toast is appended before the widget is constructed, and
\* the listener is registered after show(); with `bootstrap` undefined the
\* constructor call throws and nothing after it runs.
showToast(S, type, message) ==
    LET id == Len(S.toasts) + 1
        el == CreateToast(type, message)
        cs == AppendChild(EnsureContainer(S.containers), id)
    IN  IF bootstrap
        THEN [containers |-> cs,
              toasts     |-> Append(S.toasts, [el EXCEPT !.widget = TRUE]),
              listeners  |-> S.listeners \cup {id},
              fault      |-> FALSE]
        ELSE [containers |-> cs,
              toasts     |-> Append(S.toasts, el),
              listeners  |-> S.listeners,
              fault      |-> TRUE]

showSuccess(S, message) == showToast(S, "success", <<"U+2705", " ">> \o message)

showWarning(S, message) == showToast(S, "warning", <<"U+26A0 U+FE0F", " ">> \o message)

\* A faulty variant of showDanger: the severity of showWarning is passed on
showDangerAsWarning(S, message) == showToast(S, "warning", <<"U+274C", " ">> \o message)

showDanger(S, message) == showToast(S, "danger", <<"U+274C", " ">> \o message)

showInfo(S, message) == showToast(S, "info", <<"U+2139 U+FE0F", " ">> \o message)

\* window.BudgeteerNotifications[method](message)
Invoke(method, S, message) ==
    CASE method = "showSuccess" -> showSuccess(S, message)
      [] method = "showWarning" -> showWarning(S, message)
      [] method = "showDanger"  -> showDanger(S, message)
      [] method = "showInfo"    -> showInfo(S, message)

\* A faulty variant of RemoveNode: the first child of the container is removed
RemoveFirstChild(cs, t) ==
    [i \in 1..Len(cs) |-> IF i = 1 /\ cs[i] # <<>> THEN Tail(cs[i]) ELSE cs[i]]

\* toast.remove(): the node leaves its parent; a node with no parent stays as it is
RemoveNode(cs, t) ==
    [i \in 1..Len(cs) |-> SelectSeq(cs[i], LAMBDA x : x # t)]

\* A faulty variant of AfterDispatch: the listener is registered with {once: true}
AfterDispatchOnce(ls, t) == ls \ {t}

\* The listeners of a toast after an event was dispatched to it:
\* addEventListener is called without {once: true}, so they stay registered
AfterDispatch(ls, t) == ls

\* The per-toast counters, extended with zeros to n toasts
Pad(f, n) == [i \in 1..n |-> IF i <= Len(f) THEN f[i] ELSE 0]

----------------------------------------------------------------------------
(* The content-loaded handler *)

\* A faulty variant of Category: the markers are tested in the opposite order
CategoryDangerFirst(classList) ==
    IF "alert-danger" \in classList THEN "danger"
    ELSE IF "alert-warning" \in classList THEN "warning"
    ELSE IF "alert-success" \in classList THEN "success"
    ELSE "info"

\* The nested conditional on alert.classList.contains(...)
Category(classList) ==
    IF "alert-success" \in classList THEN "success"
    ELSE IF "alert-warning" \in classList THEN "warning"
    ELSE IF "alert-danger" \in classList THEN "danger"
    ELSE "info"

\* window.BudgeteerNotifications && window.BudgeteerNotifications[name]
Available(name) == notifier.defined /\ name \in notifier.methods

\* alerts.forEach(...) from node i on.  M carries the page, the removed
\* nodes and the calls made.  An exception thrown by the entry point leaves
\* the callback before alert.remove() and ends the forEach.
RECURSIVE forEach(_, _, _)
forEach(M, as, i) ==
    IF i > Len(as) THEN M
    ELSE
      LET name    == MethodName(Category(as[i].classList))
          message == Trim(as[i].textContent)
      IN  IF Available(name)
          THEN LET S == Invoke(name, M.page, message)
               IN  IF S.fault
                   THEN [page |-> S, removed |-> M.removed,
                         calls |-> Append(M.calls, <<i, name>>)]
                   ELSE forEach([page |-> S, removed |-> M.removed \cup {i},
                                 calls |-> Append(M.calls, <<i, name>>)], as, i + 1)
          ELSE forEach([M EXCEPT !.removed = @ \cup {i}], as, i + 1)

----------------------------------------------------------------------------
(* State machine *)

Init ==
    /\ bootstrap \in BOOLEAN
    /\ notifier = Intact
    /\ containers = <<>>
    /\ toasts = <<>>
    /\ listeners = {}
    /\ delivered = <<>>
    /\ runs = <<>>
    /\ alerts = <<>>
    /\ removed = {}
    /\ calls = <<>>
    /\ created = 0
    /\ loaded = FALSE
    /\ nCalls = 0
    /\ nHidden = 0
    /\ nFaults = 0
    /\ last = [method |-> "none", message |-> <<>>]
    /\ fault = FALSE

\* A direct call window.BudgeteerNotifications[method](message)
Show(method, message, budget) ==
    /\ nCalls + Len(alerts) < budget
    /\ Available(method)
    /\ LET S == Invoke(method, Page, message)
       IN  /\ containers' = S.containers
           /\ toasts' = S.toasts
           /\ listeners' = S.listeners
           /\ fault' = S.fault
           /\ nFaults' = IF S.fault THEN nFaults + 1 ELSE nFaults
           /\ delivered' = Pad(delivered, Len(S.toasts))
           /\ runs' = Pad(runs, Len(S.toasts))
    /\ nCalls' = nCalls + 1
    /\ last' = [method |-> method, message |-> message]
    /\ UNCHANGED <<bootstrap, notifier, alerts, removed, calls, created, loaded,
                   nHidden>>

\* The widget of toast t emits hidden.bs.toast (timeout or manual dismissal)
Hidden(t) ==
    /\ nHidden < MaxHidden
    /\ t \in 1..Len(toasts)
    /\ toasts[t].widget
    /\ delivered' = [delivered EXCEPT ![t] = @ + 1]
    /\ IF t \in listeners
       THEN /\ runs' = [runs EXCEPT ![t] = @ + 1]
            /\ containers' = RemoveNode(containers, t)
       ELSE UNCHANGED <<runs, containers>>
    /\ listeners' = AfterDispatch(listeners, t)
    /\ nHidden' = nHidden + 1
    /\ fault' = FALSE
    /\ UNCHANGED <<bootstrap, notifier, toasts, alerts, removed, calls, created,
                   loaded, nCalls, nFaults, last>>

\* The DOMContentLoaded listener, run once on the nodes the page holds then
DOMContentLoaded(as) ==
    /\ ~loaded
    /\ LET M == forEach([page |-> Page, removed |-> {}, calls |-> <<>>], as, 1)
       IN  /\ containers' = M.page.containers
           /\ toasts' = M.page.toasts
           /\ listeners' = M.page.listeners
           /\ fault' = M.page.fault
           /\ nFaults' = IF M.page.fault THEN nFaults + 1 ELSE nFaults
           /\ delivered' = Pad(delivered, Len(M.page.toasts))
           /\ runs' = Pad(runs, Len(M.page.toasts))
           /\ removed' = M.removed
           /\ calls' = M.calls
           /\ created' = Len(M.page.toasts) - Len(toasts)
    /\ alerts' = as
    /\ loaded' = TRUE
    /\ UNCHANGED <<bootstrap, notifier, nCalls, nHidden, last>>

\* The toast-widget library's script runs and defines the global `bootstrap`
BootstrapLoads ==
    /\ ~bootstrap
    /\ bootstrap' = TRUE
    /\ fault' = FALSE
    /\ UNCHANGED <<notifier, containers, toasts, listeners, delivered, runs, alerts,
                   removed, calls, created, loaded, nCalls, nHidden, nFaults, last>>

\* Another script of the page replaces or deletes window.BudgeteerNotifications
\* (here: before the page's first notification)
NotifierReplaced(shape) ==
    /\ notifier = Intact
    /\ nCalls = 0 /\ ~loaded
    /\ notifier' = shape
    /\ fault' = FALSE
    /\ UNCHANGED <<bootstrap, containers, toasts, listeners, delivered, runs, alerts,
                   removed, calls, created, loaded, nCalls, nHidden, nFaults, last>>

\* One step of the page, with the messages, the alert nodes and the number of
\* notifications taken from the given sets
Step(messages, nodes, budget) ==
    \/ \E method \in Methods, message \in messages : Show(method, message, budget)
    \/ \E t \in 1..Len(toasts) : Hidden(t)
    \/ \E as \in AlertLists(nodes, budget - nCalls) : DOMContentLoaded(as)
    \/ BootstrapLoads
    \/ \E shape \in NotifierShapes : NotifierReplaced(shape)

Next == Step(Messages, AlertNodes, MaxToasts)

Spec == Init /\ [][Next]_vars

\* The same page with one message and one kind of alert node, and room for
\* more toasts at a time
NextOrder ==
    Step({<<"a">>}, {[classList |-> {"alert-danger"}, textContent |-> <<"a">>]},
         MaxOrder)

SpecOrder == Init /\ [][NextOrder]_vars

\* The same page with the messages of TextMessages and one kind of alert node
NextText ==
    Step(TextMessages, {[classList |-> {}, textContent |-> <<" ", "a", "<", "b", " ">>]},
         MaxText)

SpecText == Init /\ [][NextText]_vars

----------------------------------------------------------------------------
(* Vocabulary of the claims *)

Ids == 1..Len(toasts)

\* The children of the toast container (none while no container exists)
Children == IF containers = <<>> THEN <<>> ELSE containers[1]

\* Toast t is a child of some toast container of the page
InPage(t) ==
    \E i \in 1..Len(containers) : \E k \in 1..Len(containers[i]) : containers[i][k] = t

SeverityOf(method) ==
    CASE method = "showSuccess" -> "success"
      [] method = "showWarning" -> "warning"
      [] method = "showDanger"  -> "danger"
      [] method = "showInfo"    -> "info"
      [] OTHER -> "none"

\* The glyph-prefixed message of severity s: the glyph, a space, then m
Prefixed(s, m) ==
    (CASE s = "success" -> <<"U+2705", " ">>
       [] s = "warning" -> <<"U+26A0 U+FE0F", " ">>
       [] s = "danger"  -> <<"U+274C", " ">>
       [] s = "info"    -> <<"U+2139 U+FE0F", " ">>) \o m

StyleOf(s) ==
    CASE s = "success" -> "bg-success"
      [] s = "warning" -> "bg-warning"
      [] s = "danger"  -> "bg-danger"
      [] s = "info"    -> "bg-info"

\* m holds no "<", no "&", no carriage return and no U+0000: none of these
\* characters, and so no tag, comment or character reference either
IsPlain(m) ==
    \A k \in 1..Len(m) :
        m[k] \notin Tags \cup Comments \cup CharRefs
                     \cup {"</div>", "<", "&", "\r", "U+0000"}

\* A step that is one direct show* call made with the toast-widget present
DirectCallWithWidget == nCalls' = nCalls + 1 /\ bootstrap

\* What such a call does to the page, but for the body text: exactly one new
\* toast, the last child of the one container, with the class of the severity
\* and with the glyph-prefixed message as the string put into the template in
\* the place of the body's content; no other toast changes.
OneNewToast ==
    LET n == Len(toasts) + 1
        s == SeverityOf(last'.method)
    IN  /\ Len(toasts') = n
        /\ Len(containers') = 1
        /\ containers'[1] = Append(Children, n)
        /\ toasts'[n].bg = StyleOf(s)
        /\ toasts'[n].html = Prefixed(s, last'.message)
        /\ \A t \in Ids : toasts'[t] = toasts[t]

----------------------------------------------------------------------------
(* C1 *)

\* C1 as stated: for every severity and every message, a show* call made with
\* the toast-widget present adds exactly one toast, of the class of the
\* severity, whose body text is the glyph-prefixed message; no other toast is
\* added or changed.
C1_AsStated ==
    [][DirectCallWithWidget =>
         /\ OneNewToast
         /\ toasts'[Len(toasts')].text
              = Prefixed(SeverityOf(last'.method), last'.message)]_vars

\* C1 amended: the same, with the glyph-prefixed message as the string put
\* into the template where the body's content goes; the body's text is the
\* glyph-prefixed message whenever the message holds none of the characters
\* "<", "&", carriage return and U+0000 (the empty message included), and for
\* every message it begins with the glyph and the space.
C1_OneToastPerCall ==
    [][DirectCallWithWidget =>
         /\ OneNewToast
         /\ Len(toasts'[Len(toasts')].text) >= 2
         /\ SubSeq(toasts'[Len(toasts')].text, 1, 2)
              = Prefixed(SeverityOf(last'.method), <<>>)
         /\ IsPlain(last'.message) =>
              toasts'[Len(toasts')].text
                = Prefixed(SeverityOf(last'.method), last'.message)]_vars

\* A danger toast for the empty message has been shown after a success toast
\* for a plain message, and both are in the container
C1_Witness ==
    /\ bootstrap /\ ~fault /\ nCalls = 2
    /\ last = [method |-> "showDanger", message |-> <<>>]
    /\ Children = <<1, 2>>
    /\ toasts[2].bg = "bg-danger"
    /\ toasts[2].text = <<"U+274C", " ">>
    /\ toasts[1].html = <<"U+2705", " ", "x", " ", "y", ".">>
    /\ toasts[1].text = toasts[1].html

----------------------------------------------------------------------------
(* C2 *)

\* C2: the page holds no toast container before the first render call and
\* exactly one from then on (toasts are never forgotten, so the container,
\* once created, is never removed and never joined by a second one), and every
\* toast attached to the page is a child of that one container.
C2_SingletonContainer ==
    /\ Len(containers) = IF toasts = <<>> THEN 0 ELSE 1
    /\ \A t \in Ids : InPage(t) => \E k \in 1..Len(Children) : Children[k] = t

\* Direct calls, the migration and a hidden event have all used the container
C2_Witness ==
    /\ Len(containers) = 1 /\ nCalls >= 1 /\ created >= 1 /\ nHidden >= 1

----------------------------------------------------------------------------
(* C3 *)

\* C3: a toast whose hidden event has fired is no child of the container, in
\* the state after the event and in every later state; the event raises no
\* error, and a second firing for the same toast leaves the container's
\* content exactly as it was.
C3_RemovedOnHidden ==
    /\ [](\A t \in Ids : delivered[t] >= 1 => ~InPage(t))
    /\ [][\A t \in Ids :
            delivered'[t] > delivered[t] =>
               /\ ~fault'
               /\ delivered[t] >= 1 => containers' = containers]_vars

\* A toast has had its hidden event twice while another toast is still shown
C3_Witness ==
    \E t \in Ids : delivered[t] = 2 /\ ~InPage(t) /\ Children # <<>>

----------------------------------------------------------------------------
(* C4 *)

\* C4 as stated: once the content-loaded handler has run, every legacy alert
\* node it selected has been removed and the handler has created as many
\* toasts as there were nodes.
C4_AsStated ==
    loaded => removed = 1..Len(alerts) /\ created = Len(alerts)

----------------------------------------------------------------------------
(* C5 *)

\* C5 as stated: the handler removes every node it selected whether or not the
\* notification was shown, raises no error, and creates at most one toast per
\* node.
C5_AsStated ==
    [][(loaded' /\ ~loaded) =>
         /\ removed' = 1..Len(alerts')
         /\ ~fault'
         /\ created' <= Len(alerts')]_vars

----------------------------------------------------------------------------
(* C6 *)

\* C6: every entry point the handler invokes is the one of the first marker,
\* in the order alert-success, alert-warning, alert-danger, that the node
\* carries, and showInfo when it carries none of the three.
C6_FirstMatch ==
    \A k \in 1..Len(calls) :
        LET cl == alerts[calls[k][1]].classList
            m  == calls[k][2]
        IN  /\ "alert-success" \in cl => m = "showSuccess"
            /\ ("alert-success" \notin cl /\ "alert-warning" \in cl) => m = "showWarning"
            /\ (cl = {"alert-danger"}) => m = "showDanger"
            /\ (cl = {}) => m = "showInfo"

\* The handler has classified a node carrying two of the markers and a node
\* carrying none
C6_Witness ==
    /\ loaded /\ Len(calls) = 2
    /\ alerts[calls[1][1]].classList = {"alert-warning", "alert-danger"}
    /\ calls[1][2] = "showWarning"
    /\ alerts[calls[2][1]].classList = {}
    /\ calls[2][2] = "showInfo"

----------------------------------------------------------------------------
(* C7 *)

\* C7: a direct show* call made while the toast-widget library is absent ends
\* in a fault.
C7_FaultsWithoutWidget ==
    [][(nCalls' = nCalls + 1 /\ ~bootstrap) => fault']_vars

\* Such a call has been made
C7_Witness == nCalls >= 1 /\ ~bootstrap /\ fault

----------------------------------------------------------------------------
(* C8 *)

\* C8 as stated: however many hidden events are delivered to a toast, the
\* body of its removal handler runs exactly once.
C8_AsStated ==
    \A t \in Ids : delivered[t] >= 1 => runs[t] = 1

\* C8 amended: the removal handler stays registered, and its body runs once
\* for each hidden event delivered to the toast.
C8_RunsPerEvent ==
    \A t \in Ids :
        /\ runs[t] = delivered[t]
        /\ toasts[t].widget => t \in listeners

\* A toast has had two hidden events and two runs of its handler
C8_Witness ==
    \E t \in Ids : delivered[t] = 2 /\ runs[t] = 2

----------------------------------------------------------------------------
(* C9 *)

\* C9: the children of the container are in the order in which they were
\* shown: of two toasts both present, the one created earlier comes first.
C9_InsertionOrder ==
    \A i \in 1..Len(containers) :
        \A j, k \in 1..Len(containers[i]) :
            j < k => containers[i][j] < containers[i][k]

\* The middle one of three toasts was removed; the first, shown directly, and
\* the third, migrated from an alert, are still shown
C9_Witness ==
    /\ Children = <<1, 3>>
    /\ delivered[2] >= 1
    /\ nCalls >= 1 /\ created >= 1

----------------------------------------------------------------------------
(* C10 *)

\* C10: every show* call that faulted has left its toast in the container
\* with no widget and no removal handler: the toasts without a widget are as
\* many as the faulted calls, each is a child of the one container, and none
\* carries a listener.
C10_FaultLeavesToast ==
    LET stuck == { t \in Ids : ~toasts[t].widget }
    IN  /\ Cardinality(stuck) = nFaults
        /\ nFaults > 0 => Len(containers) = 1
        /\ \A t \in stuck :
              /\ \E k \in 1..Len(Children) : Children[k] = t
              /\ t \notin listeners

\* Two calls have faulted, the library has loaded since, and both toasts are
\* still in the container
C10_Witness ==
    /\ nFaults = 2 /\ bootstrap
    /\ Children = <<1, 2>>

====
